---- MODULE Spec2Model ----
(***************************************************************************)
(* Model of streamlit_app_multi.py: the AudioExtractor class (validation,  *)
(* primary ffmpeg extraction, MoviePy fallback, final existence check),    *)
(* the batch loop of the extraction button handler, and the download       *)
(* section (individual downloads and ZIP bundle).                          *)
(*                                                                         *)
(* A file name is a sequence of tokens, e.g. "a_temp.mp4" is               *)
(* <<"a", "_temp", ".", "mp4">>, and a path of the scratch directory is    *)
(* the directory token followed by the name: <<"/tmp/", "a", ".", "mp3">>. *)
(***************************************************************************)
EXTENDS Integers, Sequences, FiniteSets, TLC

\* ------------------------------------------------------------------ bounds
MaxFiles == 2

\* --------------------------------------------------------- program constants
supported_video_formats ==
    { <<".", "mp4">>, <<".", "avi">>, <<".", "mkv">>, <<".", "mov">>,
      <<".", "wmv">>, <<".", "flv">>, <<".", "webm">>, <<".", "m4v">> }

supported_audio_formats ==
    { <<".", "mp3">>, <<".", "flac">>, <<".", "wav">>, <<".", "aac">>, <<".", "ogg">> }

\* ------------------------------------------------------------ input domains
\* Base names of the uploaded files that are enumerated.
Stems == { <<"a">>, <<"a", "_temp">> }
\* Extensions of the uploaded files that are enumerated ("MKV" exercises
\* .lower(); "txt" is a file the validator has to reject: the uploader's type
\* list is an option of the widget, the validator is the program's own check).
UploadExts == {"mp4", "MKV", "txt"}
\* What the media tools make of a file's bytes.
Medias == {"valid", "malformed"}
\* Two of the selectbox's output formats (line 312): one the fallback has to
\* convert to, and the one it renames the intermediate file to.  File name
\* prefixes: none, or one.
Formats == {"mp3", "wav"}
Prefixes == { <<>>, <<"p">> }

\* ------------------------------------------------------------ string helpers
\* str.lower() on one token
LowerTok(t) ==
    CASE t = "MKV" -> "mkv"
      [] t = "MP3" -> "mp3"
      [] t = "WAV" -> "wav"
      [] OTHER -> t

Lower(s) == [k \in 1..Len(s) |-> LowerTok(s[k])]

\* os.path.join("/tmp", name)
JoinTmp(name) == <<"/tmp/">> \o name

\* index of the last directory token of a path, 0 when there is none
LastSep(path) ==
    LET ds == {k \in 1..Len(path) : path[k] = "/tmp/"}
    IN IF ds = {} THEN 0 ELSE CHOOSE k \in ds : \A m \in ds : m <= k

\* os.path.basename / Path(p).name
BaseName(path) == SubSeq(path, LastSep(path) + 1, Len(path))

\* index of the last "." of a name, 0 when there is none
LastDot(name) ==
    LET ds == {k \in 1..Len(name) : name[k] = "."}
    IN IF ds = {} THEN 0 ELSE CHOOSE k \in ds : \A m \in ds : m <= k

\* pathlib: Path(p).suffix -- the last dot of the final component and what
\* follows it, unless the dot leads or ends the component
Suffix(path) ==
    LET name == BaseName(path)
        d == LastDot(name)
    IN IF d > 1 /\ d < Len(name) THEN SubSeq(name, d, Len(name)) ELSE <<>>

\* pathlib: Path(p).stem
Stem(path) ==
    LET name == BaseName(path)
        d == LastDot(name)
    IN IF d > 1 /\ d < Len(name) THEN SubSeq(name, 1, d - 1) ELSE name

\* str.endswith
EndsWith(s, t) ==
    Len(s) >= Len(t) /\ SubSeq(s, Len(s) - Len(t) + 1, Len(s)) = t

StartsWithAt(s, k, old) ==
    k + Len(old) - 1 <= Len(s) /\ SubSeq(s, k, k + Len(old) - 1) = old

\* str.replace(old, new): every non-overlapping occurrence, left to right
RECURSIVE ReplaceFrom(_, _, _, _)
ReplaceFrom(s, k, old, new) ==
    IF k > Len(s) THEN <<>>
    ELSE IF old # <<>> /\ StartsWithAt(s, k, old)
         THEN new \o ReplaceFrom(s, k + Len(old), old, new)
         ELSE <<s[k]>> \o ReplaceFrom(s, k + 1, old, new)

Replace(s, old, new) == ReplaceFrom(s, 1, old, new)

\* ------------------------------------------------------------------- state
VARIABLES
    uploads,              \* uploaded_files: sequence of [name, media]
    tools_ok,             \* ffmpeg is installed and transcodes every valid input
    output_format,        \* sidebar selectbox
    filename_prefix,      \* text input
    files,                \* the scratch directory: file name -> content
    pc,                   \* position of the running handler
    i,                    \* loop index of the batch loop (1-based)
    input_video_path,     \* input path of the current extract_audio call
    output_audio_path,    \* output path of the current extract_audio call
    format_type,          \* extract_audio's local output_format (a suffix)
    cmd,                  \* codec profile of the last ffmpeg command line
    temp_wav,             \* the fallback's intermediate file
    success,              \* extract_audio's local success
    ret,                  \* return value of the last extract_audio call
    signal,               \* exception caught by extract_audio's handler
    open_handles,         \* items whose VideoFileClip has not been closed
    log_messages,         \* st.session_state.log_messages
    output_audio_paths,   \* st.session_state.output_audio_paths
    processing_complete,  \* st.session_state.processing_complete
    successful_extractions,
    existing_files,       \* the ZIP branch's list of paths
    served,               \* payloads of the individual download buttons
    zip_data,             \* entries of the archive offered for download
    hist                  \* per item: what happened (observation only)

vars == << uploads, output_format, filename_prefix, files, pc, i,
           input_video_path, output_audio_path, format_type, cmd, temp_wav,
           success, ret, signal, open_handles, log_messages,
           output_audio_paths, processing_complete, successful_extractions,
           existing_files, served, zip_data, tools_ok, hist >>

\* ------------------------------------------------------------- file system
NoFile == [kind |-> "ENOENT", by |-> 0, media |-> "none"]

\* os.path.exists
Exists(path, fs) == path \in DOMAIN fs

\* open(path, "wb") / a tool writing its output: creates or overwrites
WriteFile(fs, path, content) ==
    [p \in DOMAIN fs \cup {path} |-> IF p = path THEN content ELSE fs[p]]

\* os.remove of an existing file
RemoveFile(fs, path) == [p \in DOMAIN fs \ {path} |-> fs[p]]

\* os.rename(src, dst) with src present: dst is replaced
RenameFile(fs, src, dst) ==
    [p \in (DOMAIN fs \ {src}) \cup {dst} |-> IF p = dst THEN fs[src] ELSE fs[p]]

\* open(path, "rb").read(): the bytes, or the failure of a missing file
ReadFile(path, fs) == IF Exists(path, fs) THEN fs[path] ELSE NoFile

\* ---------------------------------------------------------------- history
Tri(b) == IF b THEN "true" ELSE "false"

NoHist == [ staged |-> 0, validated |-> "none", ffCalls |-> 0, ffRet |-> "none",
            mvCalls |-> 0, mvRet |-> "none", mvStepFailed |-> FALSE,
            handleAtReturn |-> "none",
            existsAtCheck |-> "none",
            marked |-> "none", appendedExisted |-> "none",
            inputLeft |-> "none" ]

Note(h, k, f, v) == [h EXCEPT ![k] = [h[k] EXCEPT ![f] = v]]

\* ------------------------------------------------------------- the validator
\* mutant: the extension of an existing input is not checked
validate_input_file_exists_only(input_path, fs) ==
    IF ~Exists(input_path, fs) THEN "NotFound" ELSE "ok"

\* validate_input_file: the exception raised, or "ok"
validate_input_file(input_path, fs) ==
    IF ~Exists(input_path, fs) THEN "NotFound"
    ELSE IF Lower(Suffix(input_path)) \notin supported_video_formats
         THEN "UnsupportedFormat"
         ELSE "ok"

\* validate_output_format: the exception raised, or "ok" (the value returned
\* is then Lower(Suffix(output_path)))
validate_output_format(output_path) ==
    IF Lower(Suffix(output_path)) \notin supported_audio_formats
    THEN "UnsupportedFormat"
    ELSE "ok"

\* the first exception of extract_audio's two validation calls
Validation(input_path, output_path, fs) ==
    IF validate_input_file(input_path, fs) # "ok"
    THEN validate_input_file(input_path, fs)
    ELSE validate_output_format(output_path)

\* ------------------------------------------------------------ initial state
UploadNames == { st \o <<".", e>> : st \in Stems, e \in UploadExts }

Uploads == [name : UploadNames, media : Medias]

\* file_uploader with accept_multiple_files: one to MaxFiles files, in upload
\* order, with distinct file names
UploadLists ==
    { u \in UNION { [1..n -> Uploads] : n \in 1..MaxFiles } :
        \A a, b \in DOMAIN u : a # b => u[a].name # u[b].name }

\* lines 298-349: the session state as first initialised, and the widgets
Init ==
    /\ uploads \in UploadLists
    /\ tools_ok \in BOOLEAN
    /\ output_format \in Formats
    /\ filename_prefix \in Prefixes
    /\ files = << >>
    /\ pc = "idle"
    /\ i = 0
    /\ input_video_path = << >>
    /\ output_audio_path = << >>
    /\ format_type = << >>
    /\ cmd = "none"
    /\ temp_wav = << >>
    /\ success = FALSE
    /\ ret = FALSE
    /\ signal = "none"
    /\ open_handles = {}
    /\ log_messages = << >>
    /\ output_audio_paths = << >>
    /\ processing_complete = FALSE
    /\ successful_extractions = 0
    /\ existing_files = << >>
    /\ served = << >>
    /\ zip_data = << >>
    /\ hist = [k \in 1..MaxFiles |-> NoHist]

\* ------------------------------------------------------------ the batch loop
\* lines 352-365: the extraction button, with files uploaded
StartBatch ==
    /\ pc = "idle"
    /\ Len(uploads) > 0
    /\ log_messages' = << >>
    /\ output_audio_paths' = << >>
    /\ processing_complete' = FALSE
    /\ successful_extractions' = 0
    /\ i' = 1
    /\ pc' = "stage"
    /\ UNCHANGED << uploads, output_format, filename_prefix, tools_ok, files,
                    input_video_path, output_audio_path, format_type, cmd,
                    temp_wav, success, ret, signal, open_handles,
                    existing_files, served, zip_data, hist >>

\* lines 376-382: the output file name of an uploaded file
OutputName(name, prefix, fmt) ==
    IF prefix # << >>
    THEN prefix \o <<"_">> \o Stem(name) \o <<".", fmt>>
    ELSE Stem(name) \o <<".", fmt>>

\* lines 367-387: stage the upload, derive the output path, call extract_audio
Stage ==
    /\ pc = "stage"
    /\ i <= Len(uploads)
    /\ input_video_path' = JoinTmp(uploads[i].name)
    /\ files' = WriteFile(files, JoinTmp(uploads[i].name),
                          [kind |-> "video", by |-> i, media |-> uploads[i].media])
    /\ output_audio_path' =
           JoinTmp(OutputName(uploads[i].name, filename_prefix, output_format))
    /\ log_messages' = Append(log_messages, "file_header")
    /\ hist' = Note(hist, i, "staged", hist[i].staged + 1)
    /\ pc' = "extract_audio"
    /\ UNCHANGED << uploads, output_format, filename_prefix, tools_ok, i,
                    format_type, cmd, temp_wav, success, ret, signal,
                    open_handles, output_audio_paths, processing_complete,
                    successful_extractions, existing_files, served, zip_data >>

\* --------------------------------------------------------------- extract_audio
widgets == << uploads, output_format, filename_prefix, tools_ok >>
session == << output_audio_paths, processing_complete, successful_extractions >>
download == << existing_files, served, zip_data >>
call == << i, input_video_path, output_audio_path >>

\* lines 221-226 and 277-279: a validation call raises; the handler logs the
\* exception and extract_audio returns False
ValidateReject ==
    /\ pc = "extract_audio"
    /\ Validation(input_video_path, output_audio_path, files) # "ok"
    /\ signal' = Validation(input_video_path, output_audio_path, files)
    /\ log_messages' = Append(log_messages, "error")
    /\ ret' = FALSE
    /\ hist' = Note(hist, i, "validated", "false")
    /\ pc' = "record"
    /\ UNCHANGED << widgets, session, download, call, files, format_type, cmd,
                    temp_wav, success, open_handles >>

\* lines 221-245: both validations pass.  The output directory is the scratch
\* directory, which exists, so os.makedirs is skipped; get_audio_info only
\* reads, and its optional diagnostic lines are not kept in the log.
ValidateOk ==
    /\ pc = "extract_audio"
    /\ Validation(input_video_path, output_audio_path, files) = "ok"
    /\ format_type' = Lower(Suffix(output_audio_path))
    /\ signal' = "none"
    /\ log_messages' = log_messages \o <<"input", "output", "format">>
    /\ hist' = Note(hist, i, "validated", "true")
    /\ pc' = "ffmpeg"
    /\ UNCHANGED << widgets, session, download, call, files, cmd, temp_wav,
                    success, ret, open_handles >>

\* lines 56-111: the codec profile of the command line
FfmpegProfile(fmt) ==
    CASE fmt = <<".", "mp3">>  -> "libmp3lame -ab 320k -ar 44100 -ac 2"
      [] fmt = <<".", "flac">> -> "flac -compression_level 8"
      [] fmt = <<".", "wav">>  -> "pcm_s16le"
      [] OTHER                 -> "copy"

\* What subprocess.run of ffmpeg can do with the input: exit 0 with the output
\* written ("ok"), fail leaving the output path untouched ("fail": tool
\* missing, unreadable input), or fail after opening the output ("partial").
\* A malformed input is rejected before the output is opened; a valid input
\* is transcoded whenever the tools work.
FfmpegOutcomes(media, ok) ==
    IF media # "valid" THEN {"fail"}
    ELSE IF ok THEN {"ok"} ELSE {"ok", "fail", "partial"}

\* line 252: the fallback is tried when the primary did not succeed
NeedsFallback(s) == ~s

\* lines 247-253 with extract_audio_with_ffmpeg (51-125)
Ffmpeg ==
    /\ pc = "ffmpeg"
    /\ \E outcome \in FfmpegOutcomes(ReadFile(input_video_path, files).media, tools_ok) :
         /\ cmd' = FfmpegProfile(format_type)
         /\ files' = CASE outcome = "ok" ->
                            WriteFile(files, output_audio_path,
                                      [kind |-> "audio", by |-> i, media |-> "ffmpeg"])
                       [] outcome = "partial" ->
                            WriteFile(files, output_audio_path,
                                      [kind |-> "partial", by |-> i, media |-> "ffmpeg"])
                       [] OTHER -> files
         /\ success' = (outcome = "ok")
         /\ log_messages' =
                log_messages \o
                (IF outcome = "ok" THEN <<"ffmpeg_cmd", "ffmpeg_done">>
                 ELSE <<"ffmpeg_cmd", "ffmpeg_error">>) \o
                (IF NeedsFallback(outcome = "ok") THEN <<"retry_moviepy">> ELSE << >>)
         /\ hist' = [hist EXCEPT ![i] = [@ EXCEPT !.ffCalls = @ + 1,
                                                  !.ffRet = Tri(outcome = "ok")]]
         /\ pc' = IF NeedsFallback(outcome = "ok") THEN "moviepy" ELSE "check"
    /\ UNCHANGED << widgets, session, download, call, format_type, temp_wav,
                    ret, signal, open_handles >>

\* the fallback returns `value`; stepFailed tells whether a step of it raised
MvReturned(h, k, value, stepFailed, handles) ==
    [h EXCEPT ![k] = [@ EXCEPT !.mvRet = Tri(value),
                               !.mvStepFailed = stepFailed,
                               !.handleAtReturn = Tri(k \in handles)]]

\* VideoFileClip(input_path) raises on a file it cannot decode, and may raise
\* on any file (VideoFileClip is None when MoviePy failed to import)
OpenOutcomes(media) == IF media = "valid" THEN {TRUE, FALSE} ELSE {FALSE}

\* lines 131-134, 153-155: entry of extract_audio_with_moviepy, open the clip
MvOpen ==
    /\ pc = "moviepy"
    /\ \E opened \in OpenOutcomes(ReadFile(input_video_path, files).media) :
         IF opened
         THEN /\ open_handles' = open_handles \cup {i}
              /\ log_messages' = Append(log_messages, "moviepy_start")
              /\ hist' = [hist EXCEPT ![i] = [@ EXCEPT !.mvCalls = @ + 1]]
              /\ pc' = "mv_write"
              /\ UNCHANGED success
         ELSE /\ open_handles' = open_handles
              /\ log_messages' = log_messages \o <<"moviepy_start", "moviepy_error">>
              /\ hist' = MvReturned([hist EXCEPT ![i] = [@ EXCEPT !.mvCalls = @ + 1]],
                                    i, FALSE, TRUE, open_handles)
              /\ success' = FALSE
              /\ pc' = "check"
    /\ UNCHANGED << widgets, session, download, call, files, format_type, cmd,
                    temp_wav, ret, signal >>

\* line 137: the intermediate file's path
TempWav(output_path) == Replace(output_path, Suffix(output_path), <<"_temp", ".", "wav">>)

\* lines 137-138, 153-155: write the intermediate WAV; write_audiofile may raise
MvWrite ==
    /\ pc = "mv_write"
    /\ temp_wav' = TempWav(output_audio_path)
    /\ \E written \in BOOLEAN :
         IF written
         THEN /\ files' = WriteFile(files, TempWav(output_audio_path),
                                    [kind |-> "wav", by |-> i, media |-> "moviepy"])
              /\ pc' = "mv_convert"
              /\ UNCHANGED << success, log_messages, hist >>
         ELSE /\ files' = files
              /\ log_messages' = Append(log_messages, "moviepy_error")
              /\ hist' = MvReturned(hist, i, FALSE, TRUE, open_handles)
              /\ success' = FALSE
              /\ pc' = "check"
    /\ UNCHANGED << widgets, session, download, call, format_type, cmd, ret,
                    signal, open_handles >>

\* convert_audio_format (157-177): AudioSegment.from_wav needs the intermediate
\* file, and the export may raise; every exception is caught there and turned
\* into a False return
ConvertOutcomes(temp, fs) == IF Exists(temp, fs) THEN {TRUE, FALSE} ELSE {FALSE}

\* the scratch directory after convert_audio_format returned `converted`
AfterConvert(fs, output_path, k, converted) ==
    IF converted
    THEN WriteFile(fs, output_path, [kind |-> "audio", by |-> k, media |-> "moviepy"])
    ELSE fs

\* lines 141-155: convert or rename the intermediate file, close the clip,
\* return True; an exception of os.remove / os.rename lands in the handler
MvFinish ==
    /\ pc = "mv_convert"
    /\ IF ~EndsWith(output_audio_path, <<".", "wav">>)
       THEN \E converted \in ConvertOutcomes(temp_wav, files) :
              LET fs1 == AfterConvert(files, output_audio_path, i, converted)
                  said == IF converted THEN << >> ELSE <<"convert_error">>
              IN IF Exists(temp_wav, fs1)
                 THEN /\ files' = RemoveFile(fs1, temp_wav)
                      /\ open_handles' = open_handles \ {i}
                      /\ log_messages' = log_messages \o said \o <<"moviepy_done">>
                      /\ hist' = MvReturned(hist, i, TRUE, ~converted,
                                            open_handles \ {i})
                      /\ success' = TRUE
                 ELSE /\ files' = fs1
                      /\ open_handles' = open_handles
                      /\ log_messages' = log_messages \o said \o <<"moviepy_error">>
                      /\ hist' = MvReturned(hist, i, FALSE, TRUE, open_handles)
                      /\ success' = FALSE
       ELSE IF Exists(temp_wav, files)
            THEN /\ files' = RenameFile(files, temp_wav, output_audio_path)
                 /\ open_handles' = open_handles \ {i}
                 /\ log_messages' = Append(log_messages, "moviepy_done")
                 /\ hist' = MvReturned(hist, i, TRUE, FALSE, open_handles \ {i})
                 /\ success' = TRUE
            ELSE /\ files' = files
                 /\ open_handles' = open_handles
                 /\ log_messages' = Append(log_messages, "moviepy_error")
                 /\ hist' = MvReturned(hist, i, FALSE, TRUE, open_handles)
                 /\ success' = FALSE
    /\ pc' = "check"
    /\ UNCHANGED << widgets, session, download, call, format_type, cmd,
                    temp_wav, ret, signal >>

\* mutant: the item succeeds whenever the output file exists
FinalSuccessExistsOnly(s, exists) == exists

\* line 256: the item succeeded
FinalSuccess(s, exists) == s /\ exists

\* lines 256-275: the final check of extract_audio and its return value
Check ==
    /\ pc = "check"
    /\ ret' = FinalSuccess(success, Exists(output_audio_path, files))
    /\ log_messages' =
           Append(log_messages,
                  IF FinalSuccess(success, Exists(output_audio_path, files))
                  THEN "extract_ok" ELSE "extract_failed")
    /\ hist' = [hist EXCEPT ![i] =
                   [@ EXCEPT !.existsAtCheck = Tri(Exists(output_audio_path, files))]]
    /\ pc' = "record"
    /\ UNCHANGED << widgets, session, download, call, files, format_type, cmd,
                    temp_wav, success, signal, open_handles >>

\* mutant: the staged input is left behind
RemoveStagedNever(fs, path) == fs

\* lines 396-398: remove the staged input
RemoveStaged(fs, path) == IF Exists(path, fs) THEN RemoveFile(fs, path) ELSE fs

\* mutant: the loop is left at the first failed item
NextItemStopOnFailure(k, result) == IF result THEN k + 1 ELSE Len(uploads) + 1

\* line 367: the for loop moves to the next uploaded file, whatever the result
NextItem(k, result) == k + 1

\* lines 389-401: record the item's result, remove the staged input, go on
Record ==
    /\ pc = "record"
    /\ i <= Len(uploads)
    /\ output_audio_paths' = IF ret THEN Append(output_audio_paths, output_audio_path)
                             ELSE output_audio_paths
    /\ successful_extractions' = IF ret THEN successful_extractions + 1
                                 ELSE successful_extractions
    /\ log_messages' = Append(log_messages, IF ret THEN "item_ok" ELSE "item_failed")
    /\ files' = RemoveStaged(files, input_video_path)
    /\ hist' = [hist EXCEPT ![i] =
                   [@ EXCEPT !.marked = Tri(ret),
                             !.appendedExisted =
                                 IF ret THEN Tri(Exists(output_audio_path, files))
                                 ELSE "none",
                             !.inputLeft =
                                 Tri(Exists(input_video_path,
                                            RemoveStaged(files, input_video_path)))]]
    /\ i' = NextItem(i, ret)
    /\ pc' = "stage"
    /\ UNCHANGED << widgets, download, input_video_path, output_audio_path,
                    processing_complete, format_type, cmd, temp_wav, success,
                    ret, signal, open_handles >>

\* lines 403-409: the loop is over
Finish ==
    /\ pc = "stage"
    /\ i > Len(uploads)
    /\ processing_complete' = TRUE
    /\ pc' = "done"
    /\ UNCHANGED << widgets, download, call, files, format_type, cmd, temp_wav,
                    success, ret, signal, open_handles, log_messages,
                    output_audio_paths, successful_extractions, hist >>

\* ------------------------------------------------------------ download section
\* mutant: the button is rendered without the existence check
ServesPathAlways(path, fs) == TRUE

\* line 421: an individual download button is rendered for this path
ServesPath(path, fs) == Exists(path, fs)

\* lines 420-429: one button per path, named Path(output_path).name, its
\* payload read from the file
RECURSIVE IndividualButtons(_, _)
IndividualButtons(paths, fs) ==
    IF paths = << >> THEN << >>
    ELSE (IF ServesPath(Head(paths), fs)
          THEN << [name |-> BaseName(Head(paths)),
                   data |-> ReadFile(Head(paths), fs)] >>
          ELSE << >>) \o IndividualButtons(Tail(paths), fs)

\* line 432: the paths that still exist
ExistingFiles(paths, fs) == SelectSeq(paths, LAMBDA q : Exists(q, fs))

\* mutant: the bundler writes every listed path
ZipTakesAlways(path, fs) == TRUE

\* line 287: the bundler writes this path into the archive
ZipTakes(path, fs) == Exists(path, fs)

\* lines 282-290: the archive's entries, each under its base name
RECURSIVE create_zip_file(_, _)
create_zip_file(file_paths, fs) ==
    IF file_paths = << >> THEN << >>
    ELSE (IF ZipTakes(Head(file_paths), fs)
          THEN << [name |-> BaseName(Head(file_paths)),
                   data |-> ReadFile(Head(file_paths), fs)] >>
          ELSE << >>) \o create_zip_file(Tail(file_paths), fs)

\* lines 414-429: the page is rendered anew with individual download buttons
DownloadIndividual ==
    /\ pc = "done"
    /\ processing_complete /\ output_audio_paths # << >>
    /\ served' = IndividualButtons(output_audio_paths, files)
    /\ existing_files' = << >>
    /\ zip_data' = << >>
    /\ UNCHANGED << widgets, session, call, files, pc, format_type, cmd,
                    temp_wav, success, ret, signal, open_handles, log_messages,
                    hist >>

\* lines 431-434: the page is rendered anew in the ZIP branch, which lists the
\* paths that still exist
ZipList ==
    /\ pc = "done"
    /\ processing_complete /\ output_audio_paths # << >>
    /\ existing_files' = ExistingFiles(output_audio_paths, files)
    /\ served' = << >>
    /\ zip_data' = << >>
    /\ pc' = IF ExistingFiles(output_audio_paths, files) # << >> THEN "zip" ELSE "done"
    /\ UNCHANGED << widgets, session, call, files, format_type, cmd, temp_wav,
                    success, ret, signal, open_handles, log_messages, hist >>

\* lines 435-442: bundle the listed files and offer the archive
ZipBundle ==
    /\ pc = "zip"
    /\ zip_data' = create_zip_file(existing_files, files)
    /\ pc' = "done"
    /\ UNCHANGED << widgets, session, call, files, format_type, cmd, temp_wav,
                    success, ret, signal, open_handles, log_messages,
                    existing_files, served, hist >>

\* The environment removes a recorded output file from the scratch directory
\* while no file is being processed: between two renders of the page, or
\* between the listing and the bundling of the ZIP branch.
ExternalDelete ==
    /\ pc \in {"done", "zip"}
    /\ \E n \in DOMAIN output_audio_paths :
         /\ Exists(output_audio_paths[n], files)
         /\ files' = RemoveFile(files, output_audio_paths[n])
    /\ UNCHANGED << widgets, session, download, call, pc, format_type, cmd,
                    temp_wav, success, ret, signal, open_handles, log_messages,
                    hist >>

\* ------------------------------------------------------------- specifications
Next ==
    \/ StartBatch
    \/ Stage
    \/ ValidateReject
    \/ ValidateOk
    \/ Ffmpeg
    \/ MvOpen
    \/ MvWrite
    \/ MvFinish
    \/ Check
    \/ Record
    \/ Finish
    \/ DownloadIndividual
    \/ ZipList
    \/ ZipBundle
    \/ ExternalDelete

Spec == Init /\ [][Next]_vars

\* the steps of the button handler after the press of the button
Handler ==
    \/ Stage
    \/ ValidateReject
    \/ ValidateOk
    \/ Ffmpeg
    \/ MvOpen
    \/ MvWrite
    \/ MvFinish
    \/ Check
    \/ Record
    \/ Finish

\* ---------------------------------------- extract_audio called on its own
DirectInputs == { JoinTmp(n) : n \in UploadNames \cup { <<"a">> } }

DirectOutputs ==
    { JoinTmp(n) : n \in { <<"a", ".", "mp3">>, <<"a", ".", "wav">>,
                           <<"a", ".", "WAV">>, <<"a", ".", "txt">>,
                           <<"a">>, <<".", "mp3">> } }

\* the scratch directory before the call: the input is missing or present,
\* and an older file may sit at the output path
DirectFiles(input_path, output_path) ==
    LET inputs == { << >> } \cup
                  { WriteFile(<< >>, input_path,
                              [kind |-> "video", by |-> 0, media |-> m]) : m \in Medias }
    IN inputs \cup
       { WriteFile(f, output_path, [kind |-> "audio", by |-> 0, media |-> "old"]) :
           f \in { g \in inputs : input_path # output_path } }

\* AudioExtractor().extract_audio(input_path, output_path) on any two paths
InitDirect ==
    /\ uploads = << >>
    /\ tools_ok \in BOOLEAN
    /\ output_format = "mp3"
    /\ filename_prefix = << >>
    /\ input_video_path \in DirectInputs
    /\ output_audio_path \in DirectOutputs
    /\ files \in DirectFiles(input_video_path, output_audio_path)
    /\ pc = "extract_audio"
    /\ i = 1
    /\ format_type = << >>
    /\ cmd = "none"
    /\ temp_wav = << >>
    /\ success = FALSE
    /\ ret = FALSE
    /\ signal = "none"
    /\ open_handles = {}
    /\ log_messages = << >>
    /\ output_audio_paths = << >>
    /\ processing_complete = FALSE
    /\ successful_extractions = 0
    /\ existing_files = << >>
    /\ served = << >>
    /\ zip_data = << >>
    /\ hist = [k \in 1..MaxFiles |-> NoHist]

NextDirect ==
    \/ ValidateReject
    \/ ValidateOk
    \/ Ffmpeg
    \/ MvOpen
    \/ MvWrite
    \/ MvFinish
    \/ Check

SpecDirect == InitDirect /\ [][NextDirect]_vars

\* ======================================================================
\* Properties
\* ======================================================================
Items == 1..MaxFiles

\* the result of the last attempt that ran for item k
LastAttempt(k) == IF hist[k].mvCalls > 0 THEN hist[k].mvRet ELSE hist[k].ffRet

\* the batch loop is between StartBatch and Finish
InBatch == pc \notin {"idle", "done", "zip"}

\* C1: for every item that passed validation, the fallback is invoked only
\* after the primary returned failure for that item, exactly once in that case
\* and never after a primary success, and the result recorded for the item is
\* what the fallback returned.
C1_FallbackOutcomeRecorded ==
    \A k \in Items :
        hist[k].validated = "true" =>
            /\ hist[k].ffCalls <= 1
            /\ hist[k].mvCalls <= 1
            /\ (hist[k].mvCalls = 1 => hist[k].ffRet = "false")
            /\ (hist[k].ffRet = "true" => hist[k].mvCalls = 0)
            /\ (hist[k].ffRet = "false" /\ hist[k].existsAtCheck # "none"
                    => hist[k].mvCalls = 1)
            /\ (hist[k].mvCalls = 1 /\ hist[k].marked # "none"
                    => hist[k].marked = hist[k].mvRet)

\* C1, the part the code keeps: the order and the number of the attempts, and a
\* recorded success always being a success of the last attempt.
C1_FallbackOrder ==
    \A k \in Items :
        hist[k].validated = "true" =>
            /\ hist[k].ffCalls <= 1
            /\ hist[k].mvCalls <= 1
            /\ (hist[k].mvCalls = 1 => hist[k].ffRet = "false")
            /\ (hist[k].ffRet = "true" => hist[k].mvCalls = 0)
            /\ (hist[k].ffRet = "false" /\ hist[k].existsAtCheck # "none"
                    => hist[k].mvCalls = 1)
            /\ (hist[k].mvCalls = 1 /\ hist[k].marked = "true"
                    => hist[k].mvRet = "true")

\* C3 as claimed: a validated item is marked successful exactly when its
\* output file exists once the attempts have finished.
C3_MarkedIffExists ==
    \A k \in Items :
        hist[k].validated = "true" /\ hist[k].marked # "none" =>
            hist[k].marked = hist[k].existsAtCheck

\* C3 as amended: a validated item is marked successful exactly when the last
\* attempt that ran reported success and the output file exists at that
\* moment; it is marked failed otherwise.
C3_MarkedIffSuccessAndExists ==
    \A k \in Items :
        hist[k].validated = "true" /\ hist[k].marked # "none" =>
            hist[k].marked =
                Tri(LastAttempt(k) = "true" /\ hist[k].existsAtCheck = "true")

\* both attempts reported failure, the output file was present, the item was
\* marked failed; and another item was marked successful
C3_Witness ==
    /\ \E k \in Items :
          /\ hist[k].ffRet = "false" /\ hist[k].mvRet = "false"
          /\ hist[k].existsAtCheck = "true"
          /\ hist[k].marked = "false"
    /\ \E k \in Items : hist[k].marked = "true"

\* C8: the fallback returns false whenever one of its steps failed with an
\* exception (open, write of the intermediate file, conversion, removal or
\* rename of the intermediate file), and true only when every step succeeded.
C8_FallbackFalseOnStepFailure ==
    \A k \in Items :
        hist[k].mvRet # "none" =>
            (hist[k].mvStepFailed <=> hist[k].mvRet = "false")

\* C9: no return of the fallback leaves the decoder handle it opened open.
C9_HandlesClosedAtReturn ==
    \A k \in Items : hist[k].handleAtReturn # "true"

\* the paths recorded so far hold no path twice
NoDuplicates(paths) ==
    \A a, b \in DOMAIN paths : a # b => paths[a] # paths[b]

\* C10: within one batch distinct uploaded items are written to distinct
\* output paths: the batch result never holds a path twice, and while the
\* batch runs the output file of every successful item is still the file that
\* item wrote.
C10_DistinctOutputs ==
    /\ NoDuplicates(output_audio_paths)
    /\ InBatch =>
          \A k \in 1..Len(uploads) :
              hist[k].marked = "true" =>
                  LET out == JoinTmp(OutputName(uploads[k].name, filename_prefix,
                                                output_format))
                  IN Exists(out, files) /\ files[out].by = k

\* the allow-lists as the extensions they name, case ignored
VideoExtensions == {"mp4", "avi", "mkv", "mov", "wmv", "flv", "webm", "m4v"}
AudioExtensions == {"mp3", "flac", "wav", "aac", "ogg"}

\* the file name (a path without its directory) ends in a dot and an
\* extension of the set, after a non-empty base
HasExtensionIn(name, exts) ==
    /\ Len(name) >= 3
    /\ name[Len(name) - 1] = "."
    /\ LowerTok(name[Len(name)]) \in exts

\* an upload the batch cannot extract: unsupported extension or broken media
Malformed(k) ==
    \/ uploads[k].media = "malformed"
    \/ ~HasExtensionIn(uploads[k].name, VideoExtensions)

C2_Order ==
    pc # "idle" =>
        \A k \in 1..Len(uploads) :
            /\ hist[k].staged = IF k < i \/ (k = i /\ pc # "stage") THEN 1 ELSE 0
            /\ hist[k].marked # "none" <=> k < i

C2_OneFailure ==
    (/\ processing_complete
     /\ tools_ok
     /\ Cardinality({k \in 1..Len(uploads) : Malformed(k)}) = 1)
    => /\ successful_extractions = Len(uploads) - 1
       /\ Len(output_audio_paths) = Len(uploads) - 1
       /\ \A k \in 1..Len(uploads) :
             hist[k].marked = IF Malformed(k) THEN "false" ELSE "true"

C2_Complete ==
    pc \in {"done", "zip"} =>
        /\ processing_complete
        /\ \A k \in 1..Len(uploads) : hist[k].staged = 1 /\ hist[k].marked # "none"

\* how far the handler is from the end of the loop: the items left, and the
\* steps left within the current item
PcRank ==
    CASE pc = "stage"         -> 8
      [] pc = "extract_audio" -> 7
      [] pc = "ffmpeg"        -> 6
      [] pc = "moviepy"       -> 5
      [] pc = "mv_write"      -> 4
      [] pc = "mv_convert"    -> 3
      [] pc = "check"         -> 2
      [] pc = "record"        -> 1
      [] OTHER                -> 0

StepsLeft == (Len(uploads) + 1 - i) * 9 + PcRank

\* a started batch that is not complete can take a step
C2_NeverStuck == pc = "idle" \/ processing_complete \/ ENABLED Handler

\* C2: every uploaded file is staged and processed exactly once, in upload
\* order; a started batch reaches completion (it is never stuck before
\* processing_complete is set, and every step of the handler brings it
\* closer); and with working tools and exactly one malformed file the result
\* holds N-1 successes and one failure, the files after the malformed one
\* being processed like the others.
C2_BatchIsolation ==
    /\ [](C2_Order /\ C2_OneFailure /\ C2_Complete /\ C2_NeverStuck)
    /\ [][Handler => StepsLeft' < StepsLeft /\ StepsLeft' >= 0]_vars

\* a two-file batch whose first file is malformed: the second succeeded
C2_Witness ==
    /\ processing_complete /\ tools_ok
    /\ Len(uploads) = 2
    /\ Malformed(1) /\ ~Malformed(2)
    /\ hist[1].marked = "false" /\ hist[2].marked = "true"
    /\ output_audio_paths # << >>

\* C4: every path appended to output_audio_paths named an existing file when
\* it was appended, and no download payload (individual button or archive
\* entry) was read from a path that no longer exists.
C4_AppendedExistAndReadsChecked ==
    /\ \A k \in Items : hist[k].appendedExisted # "false"
    /\ \A n \in DOMAIN served : served[n].data # NoFile
    /\ \A n \in DOMAIN zip_data : zip_data[n].data # NoFile

\* two paths were recorded, one of them is gone, and the buttons were
\* rendered for the remaining file only
C4_Witness ==
    /\ pc = "done"
    /\ Len(output_audio_paths) = 2
    /\ \E n \in DOMAIN output_audio_paths : ~Exists(output_audio_paths[n], files)
    /\ Len(served) = 1
    /\ Exists(<<"/tmp/">> \o served[1].name, files)

\* C5: the staged input of every item is removed before the next item is
\* staged and before the batch completes, whatever the item's outcome; no
\* staged input is left when the batch is complete.
C5_StagedInputRemoved ==
    /\ \A k \in Items : hist[k].inputLeft # "true"
    /\ pc \in {"stage", "done", "zip"} =>
          \A p \in DOMAIN files : files[p].kind # "video"

\* a finished batch with a rejected item and an item both attempts failed on
C5_Witness ==
    /\ pc = "done"
    /\ \E k \in Items : hist[k].validated = "false" /\ hist[k].inputLeft = "false"
    /\ \E k \in Items : hist[k].mvRet = "false" /\ hist[k].inputLeft = "false"

\* C6: the archive create_zip_file returns holds exactly the listed paths that
\* exist at bundling time, in list order, each under its base name with the
\* file's content; a listed path that is gone is skipped without an error.
C6_ZipHoldsExistingOnly ==
    [][ (pc = "zip" /\ pc' = "done") =>
          LET kept == SelectSeq(existing_files, LAMBDA q : q \in DOMAIN files)
          IN /\ Len(zip_data') = Len(kept)
             /\ \A n \in 1..Len(kept) :
                   /\ kept[n] = <<"/tmp/">> \o zip_data'[n].name
                   /\ zip_data'[n].data = files[kept[n]] ]_vars

\* two files were listed, one was removed before bundling, the archive holds
\* the other one
C6_Witness ==
    /\ pc = "done"
    /\ Len(existing_files) = 2
    /\ Len(zip_data) = 1
    /\ Exists(<<"/tmp/">> \o zip_data[1].name, files)

\* C7: extract_audio rejects an input whose extension is outside the video
\* allow-list and an output whose extension is outside the audio allow-list,
\* whether or not the input file exists; a missing input is signalled as
\* NotFound, an unsupported extension of an existing input or of the output
\* as UnsupportedFormat; a rejected call returns False without the primary or
\* the fallback extractor being invoked.
C7_ValidatorRejects ==
    hist[1].validated # "none" =>
        LET inOk    == HasExtensionIn(Tail(input_video_path), VideoExtensions)
            outOk   == HasExtensionIn(Tail(output_audio_path), AudioExtensions)
            present == Exists(input_video_path, files)
        IN /\ (~inOk \/ ~outOk => hist[1].validated = "false")
           /\ (~present => hist[1].validated = "false" /\ signal = "NotFound")
           /\ (present /\ (~inOk \/ ~outOk) => signal = "UnsupportedFormat")
           /\ (present /\ inOk /\ outOk => hist[1].validated = "true")
           /\ (hist[1].validated = "false" =>
                   /\ hist[1].ffCalls = 0 /\ hist[1].mvCalls = 0
                   /\ ret = FALSE /\ pc = "record")

\* an existing input with a supported extension and an unsupported output
\* extension was rejected
C7_Witness ==
    /\ pc = "record"
    /\ hist[1].validated = "false"
    /\ signal = "UnsupportedFormat"
    /\ Exists(input_video_path, files)
    /\ HasExtensionIn(Tail(input_video_path), VideoExtensions)

====
